---------------------------- MODULE Spec2Model ----------------------------
(***************************************************************************)
(* Model of the two calculators of the repository:                         *)
(*   src/Scientic_Cal.py  safe AST evaluator (SafeEval, safe_eval), the    *)
(*                        session state and the button handlers            *)
(*   src/Calculator.py    the simple safe_eval and its Calculate handler   *)
(*                                                                         *)
(* Text is a sequence of one-character strings.  Python numbers are        *)
(* records: ints are exact, floats are decimal floating point numbers      *)
(* m * 10^x rounded half-even to FloatDigits significant digits (a         *)
(* narrower format than binary64, with binary64's exponent range), and     *)
(* the non-finite floats inf and nan are values of their own.              *)
(* The interpreter modelled is CPython 3.11 or later with its defaults.    *)
(***************************************************************************)
EXTENDS Integers, Sequences, FiniteSets, TLC

(***************************************************************************)
(* Bounds of the model.                                                    *)
(***************************************************************************)
\* Ints of larger magnitude are outside the model (except powers known to
\* exceed the int-to-str digit limit, see HugeInt).
MaxInt == 1000000
\* Significant decimal digits kept by a float.
FloatDigits == 3

(***************************************************************************)
(* Interpreter constants.                                                  *)
(***************************************************************************)
\* sys.int_info.default_max_str_digits: str(int) raises ValueError beyond it.
IntMaxStrDigits == 4300
\* Largest decimal exponent of a finite binary64 (sys.float_info.max_10_exp).
FloatMaxExp == 308
\* Leading digits of sys.float_info.max = 1.7976931348623157e308.
FloatMaxLead == 1797
\* Decimal exponent of the smallest positive binary64, 5e-324.
FloatMinExp == 324

(***************************************************************************)
(* Python values.                                                          *)
(***************************************************************************)
PyInt(n) == [k |-> "int", v |-> n]
\* The int b ** n, known only to have more than IntMaxStrDigits digits.
HugeInt(b, n) == [k |-> "hugeint", b |-> b, n |-> n]
PyFloat(m, x) == [k |-> "float", m |-> m, x |-> x]
PyInf(s) == [k |-> "inf", s |-> s]
PyNan == [k |-> "nan"]
PyStrObj(s) == [k |-> "str", s |-> s]
PyComplexObj == [k |-> "complex"]
\* The float returned by a math function whose digits the model does not
\* compute: an uninterpreted term over the function and its argument.
Sym(f, a) == [k |-> "sym", f |-> f, a |-> a]

\* Results of an operation: a value, a raised exception, or a computation
\* the model does not cover.
Ok(v) == [out |-> "ok", v |-> v]
Raise(exc, msg) == [out |-> "raise", exc |-> exc, msg |-> msg]
Unmodelled == [out |-> "unmodelled"]

Abs(n) == IF n < 0 THEN -n ELSE n
Sign(n) == IF n < 0 THEN -1 ELSE 1
Min(a, b) == IF a < b THEN a ELSE b
Max(a, b) == IF a < b THEN b ELSE a

RECURSIVE NumDigits(_)
NumDigits(n) == IF n < 10 THEN 1 ELSE 1 + NumDigits(n \div 10)

RECURSIVE StripZeros(_, _)
\* Normal form of m * 10^x: no trailing zero in m; zero is (0, 0).
StripZeros(m, x) ==
    IF m = 0 THEN <<0, 0>>
    ELSE IF m % 10 = 0 THEN StripZeros(m \div 10, x + 1)
    ELSE <<m, x>>

\* a >= 0 with its last k digits dropped, rounded half to even.
RoundHalfEven(a, k) ==
    IF k <= 0 THEN a
    ELSE LET q == a \div (10 ^ k)
             r == a % (10 ^ k)
             half == 5 * (10 ^ (k - 1))
         IN  IF r > half \/ (r = half /\ q % 2 = 1) THEN q + 1 ELSE q

\* Whether |m| * 10^x (m # 0) exceeds the largest finite float.
FloatOverflows(m, x) ==
    LET d == NumDigits(Abs(m))
        e == d + x - 1
        w == NumDigits(FloatMaxLead)
    IN  \/ e > FloatMaxExp
        \/ /\ e = FloatMaxExp
           /\ IF d <= w THEN Abs(m) * (10 ^ (w - d)) > FloatMaxLead
                        ELSE Abs(m) > FloatMaxLead * (10 ^ (d - w))

\* The float nearest to m * 10^x: rounded to FloatDigits digits, inf
\* beyond the largest finite float, zero below the smallest.
MkFloat(m, x) ==
    IF m = 0 THEN PyFloat(0, 0)
    ELSE LET d == NumDigits(Abs(m))
             k == d - FloatDigits
             a == IF k > 0 THEN RoundHalfEven(Abs(m), k) ELSE Abs(m)
             n == StripZeros(a, IF k > 0 THEN x + k ELSE x)
         IN  IF FloatOverflows(n[1], n[2]) THEN PyInf(Sign(m))
             ELSE IF NumDigits(n[1]) + n[2] - 1 < -FloatMinExp THEN PyFloat(0, 0)
             ELSE PyFloat(Sign(m) * n[1], n[2])

IsNumber(v) == v.k \in {"int", "hugeint", "float", "inf", "nan", "sym"}
\* isinstance(v, float)
IsFloat(v) == v.k \in {"float", "inf", "nan", "sym"}
IsFinite(v) == v.k \in {"int", "float"}
IsZero(v) == (v.k = "int" /\ v.v = 0) \/ (v.k = "float" /\ v.m = 0)

\* float(v) for an int or float of the model.
ToFloat(v) == IF v.k = "int" THEN MkFloat(v.v, 0) ELSE v

\* Whether float(v) is exact in the model, as it is in the interpreter for
\* every int the model holds.
ExactFloat(v) == v.k # "int" \/ NumDigits(StripZeros(Abs(v.v), 0)[1]) <= FloatDigits

\* float.is_integer()
FloatIsInteger(v) == v.k = "float" /\ v.x >= 0

\* int(v) for a float with is_integer(): exact, or outside the model.
FloatToInt(v) ==
    IF NumDigits(Abs(v.m)) + v.x > NumDigits(MaxInt) THEN Unmodelled
    ELSE LET n == v.m * (10 ^ v.x)
         IN  IF Abs(n) > MaxInt THEN Unmodelled ELSE Ok(PyInt(n))

\* An int result: exact when the model holds it.
IntResult(n) == IF Abs(n) > MaxInt THEN Unmodelled ELSE Ok(PyInt(n))


(***************************************************************************)
(* Float arithmetic on finite floats (m, x), correctly rounded to          *)
(* FloatDigits digits with guard digits and a sticky digit.                *)
(***************************************************************************)
AdjExp(v) == NumDigits(Abs(v.m)) + v.x

\* |m| with its last k digits cut off; a nonzero remainder is kept as a
\* sticky unit so that a later rounding never sees a false tie.
CutSticky(m, k) ==
    IF k > NumDigits(Abs(m)) THEN Sign(m)
    ELSE LET t == Abs(m) \div (10 ^ k)
             r == Abs(m) % (10 ^ k)
         IN  Sign(m) * (IF r # 0 /\ t % 5 = 0 THEN t + 1 ELSE t)

FloatAdd(a, b) ==
    IF a.m = 0 THEN b
    ELSE IF b.m = 0 THEN a
    ELSE LET hi == IF AdjExp(a) >= AdjExp(b) THEN a ELSE b
             lo == IF AdjExp(a) >= AdjExp(b) THEN b ELSE a
             sh == FloatDigits + 3 - NumDigits(Abs(hi.m))
             xe == hi.x - sh
             H  == hi.m * (10 ^ sh)
             L  == IF lo.x >= xe THEN lo.m * (10 ^ (lo.x - xe))
                   ELSE CutSticky(lo.m, xe - lo.x)
         IN  MkFloat(H + L, xe)

FloatNeg(a) == PyFloat(-a.m, a.x)

FloatMul(a, b) == MkFloat(a.m * b.m, a.x + b.x)

\* a / b for b # 0.
FloatDiv(a, b) ==
    IF a.m = 0 THEN PyFloat(0, 0)
    ELSE LET s == FloatDigits + 1 + NumDigits(Abs(b.m)) - NumDigits(Abs(a.m))
             N == Abs(a.m) * (10 ^ s)
             q == N \div Abs(b.m)
             r == N % Abs(b.m)
             qs == 10 * q + (IF r # 0 THEN 1 ELSE 0)
         IN  MkFloat(Sign(a.m) * Sign(b.m) * qs, a.x - b.x - s - 1)

(***************************************************************************)
(* Python's arithmetic on numbers (operator.add, sub, mul, truediv,        *)
(* floordiv, mod, pow, neg, pos): int with int is exact, anything with a   *)
(* float is float arithmetic, inf and nan follow IEEE 754, and a zero      *)
(* divisor raises ZeroDivisionError.                                       *)
(***************************************************************************)
\* Floor division and modulo of ints, b # 0 (the remainder has b's sign).
IntFloorDiv(a, b) ==
    LET q == Abs(a) \div Abs(b)
        r == Abs(a) % Abs(b)
    IN  IF Sign(a) = Sign(b) \/ a = 0 THEN q
        ELSE IF r = 0 THEN -q ELSE -(q + 1)

IntMod(a, b) == a - b * IntFloorDiv(a, b)

NonFiniteSign(v) == IF v.k = "inf" THEN v.s ELSE IF v.k = "int" THEN Sign(v.v) ELSE Sign(v.m)

\* An int beyond the range of float meets a float: its conversion raises.
IntTooLarge(a, b) == (a.k = "hugeint" /\ IsFloat(b)) \/ (b.k = "hugeint" /\ IsFloat(a))

TooLargeError == Raise("OverflowError", <<"int too large to convert to float">>)

PyAdd(a, b) ==
    IF a.k = "int" /\ b.k = "int" THEN IntResult(a.v + b.v)
    ELSE IF IntTooLarge(a, b) THEN TooLargeError
    ELSE IF IsFinite(a) /\ IsFinite(b) THEN Ok(FloatAdd(ToFloat(a), ToFloat(b)))
    ELSE IF a.k \in {"sym", "hugeint"} \/ b.k \in {"sym", "hugeint"} THEN Unmodelled
    ELSE IF a.k = "nan" \/ b.k = "nan" THEN Ok(PyNan)
    ELSE IF a.k = "inf" /\ b.k = "inf" THEN (IF a.s = b.s THEN Ok(a) ELSE Ok(PyNan))
    ELSE IF a.k = "inf" THEN Ok(a)
    ELSE Ok(b)

PyNeg(a) ==
    CASE a.k = "int" -> Ok(PyInt(-a.v))
      [] a.k = "float" -> Ok(FloatNeg(a))
      [] a.k = "inf" -> Ok(PyInf(-a.s))
      [] a.k = "nan" -> Ok(PyNan)
      [] OTHER -> Unmodelled

PyPos(a) == Ok(a)

PySub(a, b) ==
    IF a.k = "int" /\ b.k = "int" THEN IntResult(a.v - b.v)
    ELSE IF IntTooLarge(a, b) THEN TooLargeError
    ELSE IF b.k \in {"sym", "hugeint"} THEN Unmodelled
    ELSE PyAdd(a, PyNeg(b).v)

PyMul(a, b) ==
    IF a.k = "int" /\ b.k = "int" THEN
        (IF NumDigits(Abs(a.v)) + NumDigits(Abs(b.v)) > 9 THEN Unmodelled
         ELSE IntResult(a.v * b.v))
    ELSE IF IsFinite(a) /\ IsFinite(b) THEN Ok(FloatMul(ToFloat(a), ToFloat(b)))
    ELSE IF a.k \in {"sym", "hugeint"} \/ b.k \in {"sym", "hugeint"} THEN Unmodelled
    ELSE IF a.k = "nan" \/ b.k = "nan" THEN Ok(PyNan)
    ELSE IF IsZero(a) \/ IsZero(b) THEN Ok(PyNan)
    ELSE Ok(PyInf(NonFiniteSign(a) * NonFiniteSign(b)))

\* A true division that follows IEEE 754: a zero divisor gives an infinity.
PyTrueDiv_Inf(a, b) ==
    IF IsZero(b) THEN Ok(PyInf(1))
    ELSE IF IsFinite(a) /\ IsFinite(b) THEN Ok(FloatDiv(ToFloat(a), ToFloat(b)))
    ELSE Unmodelled

PyTrueDiv(a, b) ==
    IF IsZero(b) THEN
        Raise("ZeroDivisionError",
              IF b.k = "int" /\ a.k \in {"int", "hugeint"} THEN <<"division by zero">>
              ELSE <<"float division by zero">>)
    ELSE IF IsFinite(a) /\ IsFinite(b) THEN Ok(FloatDiv(ToFloat(a), ToFloat(b)))
    ELSE IF a.k \in {"sym", "hugeint"} \/ b.k \in {"sym", "hugeint"} THEN Unmodelled
    ELSE IF a.k = "nan" \/ b.k = "nan" THEN Ok(PyNan)
    ELSE IF a.k = "inf" /\ b.k = "inf" THEN Ok(PyNan)
    ELSE IF a.k = "inf" THEN Ok(PyInf(a.s * NonFiniteSign(b)))
    ELSE Ok(PyFloat(0, 0))

\* Finite floats as ints over a common power of ten, when the model holds them.
Aligned(a, b) ==
    LET s == Min(a.x, b.x)
    IN  IF NumDigits(Abs(a.m)) + (a.x - s) > 9 \/ NumDigits(Abs(b.m)) + (b.x - s) > 9
        THEN <<>>
        ELSE <<a.m * (10 ^ (a.x - s)), b.m * (10 ^ (b.x - s)), s>>

PyFloorDiv(a, b) ==
    IF IsZero(b) THEN
        Raise("ZeroDivisionError",
              IF b.k = "int" /\ a.k \in {"int", "hugeint"}
              THEN <<"integer division or modulo by zero">>
              ELSE <<"float floor division by zero">>)
    ELSE IF a.k = "int" /\ b.k = "int" THEN Ok(PyInt(IntFloorDiv(a.v, b.v)))
    ELSE IF IsFinite(a) /\ IsFinite(b) THEN
        LET al == Aligned(ToFloat(a), ToFloat(b))
        IN  IF al = <<>> THEN Unmodelled ELSE Ok(MkFloat(IntFloorDiv(al[1], al[2]), 0))
    ELSE Unmodelled

PyMod(a, b) ==
    IF IsZero(b) THEN
        Raise("ZeroDivisionError",
              IF b.k = "int" /\ a.k \in {"int", "hugeint"}
              THEN <<"integer division or modulo by zero">>
              ELSE <<"float modulo">>)
    ELSE IF a.k = "int" /\ b.k = "int" THEN Ok(PyInt(IntMod(a.v, b.v)))
    ELSE IF IsFinite(a) /\ IsFinite(b) THEN
        LET al == Aligned(ToFloat(a), ToFloat(b))
        IN  IF al = <<>> THEN Unmodelled ELSE Ok(MkFloat(IntMod(al[1], al[2]), al[3]))
    ELSE Unmodelled

RECURSIVE IntPowUp(_, _, _)
\* acc * b^n for |b| >= 2, or MaxInt + 1 as soon as the magnitude passes MaxInt.
IntPowUp(b, n, acc) ==
    IF n = 0 THEN acc
    ELSE IF Abs(acc * b) > MaxInt THEN MaxInt + 1
    ELSE IntPowUp(b, n - 1, acc * b)

\* b ** n for ints, n >= 0.
IntPow(b, n) ==
    IF n = 0 THEN Ok(PyInt(1))
    ELSE IF b = 0 \/ b = 1 THEN Ok(PyInt(b))
    ELSE IF b = -1 THEN Ok(PyInt(IF n % 2 = 0 THEN 1 ELSE -1))
    ELSE LET p == IntPowUp(b, n, 1)
         IN  IF Abs(p) <= MaxInt THEN Ok(PyInt(p))
             ELSE IF (NumDigits(Abs(b)) - 1) * n + 1 > IntMaxStrDigits
                  THEN Ok(HugeInt(b, n))
             ELSE Unmodelled

RECURSIVE FloatPowNat(_, _)
\* f ** n by repeated squaring, n >= 0; inf once the product overflows.
FloatPowNat(f, n) ==
    IF n = 0 THEN PyFloat(1, 0)
    ELSE IF n % 2 = 1 THEN
        LET h == FloatPowNat(f, n - 1)
        IN  IF h.k = "inf" THEN PyInf(h.s * Sign(f.m)) ELSE FloatMul(f, h)
    ELSE
        LET h == FloatPowNat(f, n \div 2)
        IN  IF h.k = "inf" THEN PyInf(1) ELSE FloatMul(h, h)

RECURSIVE IntSqrt(_, _)
\* The least r >= lo with r * r >= n.
IntSqrt(n, lo) == IF lo * lo >= n THEN lo ELSE IntSqrt(n, lo + 1)

\* Whether the finite float f >= 0 is the square of a float, and that float.
IsSquare(f) == f.m >= 0 /\ f.x % 2 = 0
               /\ LET r == IntSqrt(f.m, 0) IN r * r = f.m
FloatSqrt(f) == MkFloat(IntSqrt(f.m, 0), IF f.x >= 0 THEN f.x \div 2 ELSE -((-f.x) \div 2))

\* float pow for finite floats f, g.
FloatPow(f, g) ==
    IF g.m = 0 THEN Ok(PyFloat(1, 0))
    ELSE IF g.x >= 0 THEN
        IF NumDigits(Abs(g.m)) + g.x > 5 THEN Unmodelled
        ELSE LET n == Abs(g.m) * (10 ^ g.x)
                 p == FloatPowNat(f, n)
             IN  IF g.m > 0 THEN
                     (IF p.k = "inf" THEN Raise("OverflowError", <<"(34, 'Numerical result out of range')">>)
                      ELSE Ok(p))
                 ELSE IF f.m = 0 THEN
                     Raise("ZeroDivisionError", <<"0.0 cannot be raised to a negative power">>)
                 ELSE IF p.k = "inf" THEN Ok(PyFloat(0, 0))
                 ELSE IF p.m = 0 THEN Raise("OverflowError", <<"(34, 'Numerical result out of range')">>)
                 ELSE LET q == FloatDiv(PyFloat(1, 0), p)
                      IN  IF q.k = "inf"
                          THEN Raise("OverflowError", <<"(34, 'Numerical result out of range')">>)
                          ELSE Ok(q)
    ELSE IF f.m < 0 THEN Unmodelled     \* a complex result
    ELSE IF g = PyFloat(5, -1) /\ IsSquare(f) THEN Ok(FloatSqrt(f))
    ELSE Unmodelled

PyPow(a, b) ==
    IF a.k = "int" /\ b.k = "int" THEN
        IF b.v >= 0 THEN IntPow(a.v, b.v)
        ELSE IF a.v = 0 THEN
            Raise("ZeroDivisionError", <<"0.0 cannot be raised to a negative power">>)
        ELSE FloatPow(ToFloat(a), ToFloat(b))
    ELSE IF IsFinite(a) /\ IsFinite(b) THEN FloatPow(ToFloat(a), ToFloat(b))
    ELSE Unmodelled


(***************************************************************************)
(* Text: str(value), and the tokens of Python's expression grammar.        *)
(* The alphabet is lower-case letters, "_", digits, space, the quote "'"   *)
(* and the operator characters + - * / % ( ) , . [ ] < = @ ~; a text with  *)
(* anything else (keywords, capitals, prefixed or triple-quoted strings,   *)
(* digits run into letters) is outside the model.                          *)
(***************************************************************************)
DigitChars == <<"0", "1", "2", "3", "4", "5", "6", "7", "8", "9">>
Digit == {DigitChars[i] : i \in 1..10}
Letter == {"a", "b", "c", "d", "e", "f", "g", "h", "i", "j", "k", "l", "m", "n", "o", "p", "q", "r", "s", "t", "u", "v", "w", "x", "y", "z", "_"}
IdChar == Letter \cup Digit
Keywords ==
    {<<"a", "n", "d">>, <<"a", "s">>, <<"a", "s", "s", "e", "r", "t">>,
     <<"a", "s", "y", "n", "c">>, <<"a", "w", "a", "i", "t">>, <<"b", "r", "e", "a", "k">>,
     <<"c", "l", "a", "s", "s">>, <<"c", "o", "n", "t", "i", "n", "u", "e">>, <<"d", "e", "f">>,
     <<"d", "e", "l">>, <<"e", "l", "i", "f">>, <<"e", "l", "s", "e">>,
     <<"e", "x", "c", "e", "p", "t">>, <<"f", "i", "n", "a", "l", "l", "y">>, <<"f", "o", "r">>,
     <<"f", "r", "o", "m">>, <<"g", "l", "o", "b", "a", "l">>, <<"i", "f">>,
     <<"i", "m", "p", "o", "r", "t">>, <<"i", "n">>, <<"i", "s">>,
     <<"l", "a", "m", "b", "d", "a">>, <<"n", "o", "n", "l", "o", "c", "a", "l">>, <<"n", "o", "t">>,
     <<"o", "r">>, <<"p", "a", "s", "s">>, <<"r", "a", "i", "s", "e">>,
     <<"r", "e", "t", "u", "r", "n">>, <<"t", "r", "y">>, <<"w", "h", "i", "l", "e">>,
     <<"w", "i", "t", "h">>, <<"y", "i", "e", "l", "d">>}

DigitVal(c) == (CHOOSE i \in 1..10 : DigitChars[i] = c) - 1

RECURSIVE DigitsOf(_)
\* The decimal digits of n >= 0.
DigitsOf(n) == IF n < 10 THEN <<DigitChars[n + 1]>>
               ELSE Append(DigitsOf(n \div 10), DigitChars[(n % 10) + 1])

RECURSIVE DigitsVal(_)
DigitsVal(ds) == IF ds = <<>> THEN 0
                 ELSE 10 * DigitsVal(SubSeq(ds, 1, Len(ds) - 1)) + DigitVal(ds[Len(ds)])

Zeros(n) == [i \in 1..n |-> "0"]

\* repr of a finite float: the digits of m with the point placed by x;
\* scientific notation when the point falls outside -3..16.
FloatRepr(v) ==
    IF v.m = 0 THEN <<"0", ".", "0">>
    ELSE LET D == DigitsOf(Abs(v.m))
             n == Len(D)
             decpt == n + v.x
             sgn == IF v.m < 0 THEN <<"-">> ELSE <<>>
             e == decpt - 1
             ed == DigitsOf(Abs(e))
         IN  sgn \o
             (IF decpt > 16 \/ decpt < -3 THEN
                  <<D[1]>> \o (IF n > 1 THEN <<".">> \o SubSeq(D, 2, n) ELSE <<>>)
                  \o <<"e", IF e < 0 THEN "-" ELSE "+">>
                  \o (IF Len(ed) < 2 THEN <<"0">> ELSE <<>>) \o ed
              ELSE IF decpt <= 0 THEN <<"0", ".">> \o Zeros(-decpt) \o D
              ELSE IF decpt >= n THEN D \o Zeros(decpt - n) \o <<".", "0">>
              ELSE SubSeq(D, 1, decpt) \o <<".">> \o SubSeq(D, decpt + 1, n))

\* str(v) of a number: its text, or the ValueError CPython raises for an
\* int of more than IntMaxStrDigits digits.
PyStr(v) ==
    CASE v.k = "int" -> Ok((IF v.v < 0 THEN <<"-">> ELSE <<>>) \o DigitsOf(Abs(v.v)))
      [] v.k = "hugeint" ->
            Raise("ValueError", <<"Exceeds the limit (4300 digits) for integer string conversion">>)
      [] v.k = "float" -> Ok(FloatRepr(v))
      [] v.k = "inf" -> Ok((IF v.s < 0 THEN <<"-">> ELSE <<>>) \o <<"i", "n", "f">>)
      [] v.k = "nan" -> Ok(<<"n", "a", "n">>)
      [] OTHER -> Unmodelled

Tok(t, v) == [t |-> t, v |-> v]
ErrTok == Tok("err", "")
UnmodelledTok == Tok("unmodelled", "")

RECURSIVE ScanSet(_, _, _)
\* The first index from i on whose character is not in S.
ScanSet(s, i, S) == IF i <= Len(s) /\ s[i] \in S THEN ScanSet(s, i + 1, S) ELSE i

RECURSIVE ScanTo(_, _, _)
\* The first index from i on whose character is c (Len(s) + 1 if none).
ScanTo(s, i, c) == IF i <= Len(s) /\ s[i] # c THEN ScanTo(s, i + 1, c) ELSE i

RECURSIVE StripLeadingZeros(_)
StripLeadingZeros(ds) ==
    IF ds # <<>> /\ ds[1] = "0" THEN StripLeadingZeros(Tail(ds)) ELSE ds

RECURSIVE TrailingZeros(_)
TrailingZeros(ds) ==
    IF ds # <<>> /\ ds[Len(ds)] = "0" THEN 1 + TrailingZeros(SubSeq(ds, 1, Len(ds) - 1))
    ELSE 0

\* The int literal with digits ds.
IntLiteral(ds) ==
    LET core == StripLeadingZeros(ds)
    IN  IF Len(ds) > 1 /\ ds[1] = "0" /\ core # <<>> THEN ErrTok
        ELSE IF Len(core) > NumDigits(MaxInt) THEN UnmodelledTok
        ELSE IF DigitsVal(core) > MaxInt THEN UnmodelledTok
        ELSE Tok("num", PyInt(DigitsVal(core)))

\* The float literal ip.fp e ex (ex = <<>> without exponent, neg its sign).
FloatLiteral(ip, fp, ex, neg) ==
    LET lead == StripLeadingZeros(ip \o fp)
        tz == TrailingZeros(lead)
        core == SubSeq(lead, 1, Len(lead) - tz)
        xs == StripLeadingZeros(ex)
        exv == IF Len(xs) > 6 THEN 999999 ELSE DigitsVal(xs)
    IN  IF Len(core) > FloatDigits THEN UnmodelledTok
        ELSE Tok("num", MkFloat(DigitsVal(core),
                                (IF neg THEN -exv ELSE exv) - Len(fp) + tz))

\* The number literal starting at s[i]: <<token, index after it>>.
LexNumber(s, i) ==
    LET j1 == ScanSet(s, i, Digit)
        dot == j1 <= Len(s) /\ s[j1] = "."
        j2 == IF dot THEN ScanSet(s, j1 + 1, Digit) ELSE j1
        sgn == j2 + 1 <= Len(s) /\ s[j2 + 1] \in {"+", "-"}
        xs == IF sgn THEN j2 + 2 ELSE j2 + 1
        hasExp == j2 <= Len(s) /\ s[j2] = "e" /\ xs <= Len(s) /\ s[xs] \in Digit
        j3 == IF hasExp THEN ScanSet(s, xs, Digit) ELSE j2
        imag == j3 <= Len(s) /\ s[j3] = "j"
        j4 == IF imag THEN j3 + 1 ELSE j3
        ip == SubSeq(s, i, j1 - 1)
        fp == IF dot THEN SubSeq(s, j1 + 1, j2 - 1) ELSE <<>>
        ex == IF hasExp THEN SubSeq(s, xs, j3 - 1) ELSE <<>>
    IN  IF j4 <= Len(s) /\ s[j4] \in IdChar THEN <<UnmodelledTok, j4>>
        ELSE IF imag THEN <<Tok("num", PyComplexObj), j4>>
        ELSE IF ~dot /\ ~hasExp THEN <<IntLiteral(ip), j4>>
        ELSE <<FloatLiteral(ip, fp, ex, hasExp /\ sgn /\ s[j2 + 1] = "-"), j4>>

RECURSIVE Lex(_, _)
\* The tokens of s from index i on, ending with an ErrTok where the
\* tokenizer fails and with an UnmodelledTok where the model stops.
Lex(s, i) ==
    IF i > Len(s) THEN <<>>
    ELSE LET c == s[i]
             nxt == IF i < Len(s) THEN s[i + 1] ELSE " "
         IN  IF c = " " THEN Lex(s, i + 1)
             ELSE IF c \in Digit \/ (c = "." /\ nxt \in Digit) THEN
                 LET r == LexNumber(s, i)
                 IN  IF r[1].t # "num" THEN <<r[1]>> ELSE <<r[1]>> \o Lex(s, r[2])
             ELSE IF c \in Letter THEN
                 LET j == ScanSet(s, i, IdChar)
                     id == SubSeq(s, i, j - 1)
                 IN  IF id \in Keywords \/ (j <= Len(s) /\ s[j] = "'")
                     THEN <<UnmodelledTok>>
                     ELSE <<Tok("name", id)>> \o Lex(s, j)
             ELSE IF c = "'" THEN
                 LET j == ScanTo(s, i + 1, "'")
                 IN  IF j = i + 1 /\ j < Len(s) /\ s[j + 1] = "'" THEN <<UnmodelledTok>>
                     ELSE IF j <= Len(s)
                     THEN <<Tok("str", SubSeq(s, i + 1, j - 1))>> \o Lex(s, j + 1)
                     ELSE <<ErrTok>>
             ELSE IF c \in {"*", "/", "<", "="} /\ nxt = c THEN
                 <<Tok("op", CASE c = "*" -> "**" [] c = "/" -> "//"
                               [] c = "<" -> "<<" [] c = "=" -> "==")>>
                 \o Lex(s, i + 2)
             ELSE IF c = "<" /\ nxt = "=" THEN <<Tok("op", "<=")>> \o Lex(s, i + 2)
             ELSE IF c \in {"+", "-", "*", "/", "%", "(", ")", ",", ".", "[", "]", "<",
                            "=", "@", "~"}
                 THEN <<Tok("op", c)>> \o Lex(s, i + 1)
             ELSE <<UnmodelledTok>>


(***************************************************************************)
(* ast.parse(expr, mode="eval"): the expression tree of a text, by         *)
(* recursive descent over Python's grammar for the alphabet above:         *)
(*   expressions: comparison ("," comparison)* [","]      (a Tuple)        *)
(*   comparison:  shift (("<" | "<=" | "==") shift)*                       *)
(*   shift:       arith ("<<" arith)*                                      *)
(*   arith:       term (("+" | "-") term)*                                 *)
(*   term:        factor (("*" | "/" | "//" | "%" | "@") factor)*          *)
(*   factor:      ("+" | "-" | "~") factor | power                         *)
(*   power:       primary ["**" factor]                                    *)
(*   primary:     atom ("(" args ")" | "." NAME | "[" expressions "]")*    *)
(*   args:        positional arguments, then NAME "=" comparison keywords  *)
(*   atom:        NUMBER | NAME | STRING+ | "(" expressions ")" | "[" ..."]"*)
(* Starred elements and arguments are outside the model.                   *)
(***************************************************************************)
Constant(v) == [type |-> "Constant", value |-> v]
Name(id) == [type |-> "Name", id |-> id]
BinOp(l, o, r) == [type |-> "BinOp", left |-> l, op |-> o, right |-> r]
UnaryOp(o, x) == [type |-> "UnaryOp", op |-> o, operand |-> x]
Call(f, args, kw) == [type |-> "Call", func |-> f, args |-> args, keywords |-> kw]
\* Every other node type of the host grammar, with its child expressions.
OtherNode(t, kids) == [type |-> t, kids |-> kids]

NoNode == [type |-> "none"]
PFail == [n |-> NoNode, i |-> 0]
POk(n, i) == [n |-> n, i |-> i]

IsOp(toks, i, o) == i <= Len(toks) /\ toks[i].t = "op" /\ toks[i].v = o
IsOpIn(toks, i, S) == i <= Len(toks) /\ toks[i].t = "op" /\ toks[i].v \in S
AtClose(toks, i) == i > Len(toks) \/ IsOpIn(toks, i, {")", "]"})

BinOpOf(o) ==
    CASE o = "+" -> "Add" [] o = "-" -> "Sub" [] o = "*" -> "Mult" [] o = "/" -> "Div"
      [] o = "//" -> "FloorDiv" [] o = "%" -> "Mod" [] o = "**" -> "Pow"
      [] o = "@" -> "MatMult" [] o = "<<" -> "LShift"

\* The binary levels of the grammar, loosest first, and their operators.
LevelOps == <<{"<", "<=", "=="}, {"<<"}, {"+", "-"}, {"*", "/", "//", "%", "@"}>>

\* The level of the binary operator at toks[i], 0 when there is none.
OpLevel(toks, i) ==
    IF \E l \in 1..Len(LevelOps) : IsOpIn(toks, i, LevelOps[l])
    THEN CHOOSE l \in 1..Len(LevelOps) : IsOpIn(toks, i, LevelOps[l])
    ELSE 0

RECURSIVE StrRun(_, _)
\* Adjacent string literals from i on, concatenated: [v, i].
StrRun(toks, i) ==
    IF i <= Len(toks) /\ toks[i].t = "str"
    THEN LET r == StrRun(toks, i + 1) IN [v |-> toks[i].v \o r.v, i |-> r.i]
    ELSE [v |-> <<>>, i |-> i]

RECURSIVE ParseRule(_, _, _, _)
\* One rule of the grammar applied to toks from index i on; a is what the
\* rule has gathered so far.  A rule gives [n, i]: the node and the index
\* after it, i = 0 when the tokens do not fit; "exprs" gives [elts, i,
\* comma] and "args" gives [args, kw, i].
ParseRule(rule, toks, i, a) ==
    CASE rule = "exprs" ->
            IF AtClose(toks, i) THEN [elts |-> a, i |-> i, comma |-> a # <<>>]
            ELSE LET r == ParseRule("bin", toks, i, 1)
                 IN  IF r.i = 0 THEN [elts |-> <<>>, i |-> 0, comma |-> FALSE]
                     ELSE IF IsOp(toks, r.i, ",")
                         THEN ParseRule("exprs", toks, r.i + 1, Append(a, r.n))
                     ELSE [elts |-> Append(a, r.n), i |-> r.i, comma |-> a # <<>>]
      [] rule = "args" ->
            IF AtClose(toks, i) THEN [args |-> a.args, kw |-> a.kw, i |-> i]
            ELSE LET isKw == i <= Len(toks) /\ toks[i].t = "name" /\ IsOp(toks, i + 1, "=")
                     r == ParseRule("bin", toks, IF isKw THEN i + 2 ELSE i, 1)
                     b == IF isKw
                          THEN [a EXCEPT !.kw = Append(@, [arg |-> toks[i].v, value |-> r.n])]
                          ELSE [a EXCEPT !.args = Append(@, r.n)]
                 IN  IF r.i = 0 \/ (~isKw /\ a.kw # <<>>)
                     THEN [args |-> <<>>, kw |-> <<>>, i |-> 0]
                     ELSE IF IsOp(toks, r.i, ",") THEN ParseRule("args", toks, r.i + 1, b)
                     ELSE [args |-> b.args, kw |-> b.kw, i |-> r.i]
      [] rule = "bin" ->
            \* a is the loosest level the expression may have: a factor,
            \* then the operators of level a or tighter with their operands
            LET l == ParseRule("factor", toks, i, <<>>)
            IN  IF l.i = 0 THEN PFail
                ELSE ParseRule("binRest", toks, l.i, <<a, l.n, <<l.n>>>>)
      [] rule = "binRest" ->
            \* a is <<level, left operand, the operands of a comparison>>
            LET lv == OpLevel(toks, i)
                r == ParseRule("bin", toks, i + 1, lv + 1)
                node == BinOp(a[2], BinOpOf(toks[i].v), r.n)
            IN  IF lv < a[1] THEN
                    POk(IF Len(a[3]) > 1 THEN OtherNode("Compare", a[3]) ELSE a[2], i)
                ELSE IF r.i = 0 THEN PFail
                ELSE IF lv = 1
                    THEN ParseRule("binRest", toks, r.i, <<a[1], a[2], Append(a[3], r.n)>>)
                ELSE ParseRule("binRest", toks, r.i, <<a[1], node, <<node>>>>)
      [] rule = "factor" ->
            IF IsOpIn(toks, i, {"+", "-", "~"}) THEN
                LET r == ParseRule("factor", toks, i + 1, <<>>)
                IN  IF r.i = 0 THEN PFail
                    ELSE POk(UnaryOp(CASE toks[i].v = "-" -> "USub"
                                       [] toks[i].v = "+" -> "UAdd"
                                       [] OTHER -> "Invert", r.n), r.i)
            ELSE LET b == ParseRule("atom", toks, i, <<>>)
                     r == ParseRule("factor", toks, b.i + 1, <<>>)
                 IN  IF b.i = 0 THEN PFail
                     ELSE IF ~IsOp(toks, b.i, "**") THEN b
                     ELSE IF r.i = 0 THEN PFail
                     ELSE POk(BinOp(b.n, "Pow", r.n), r.i)
      [] rule = "atom" ->
            \* an atom, then its trailers
            IF i > Len(toks) THEN PFail
            ELSE IF toks[i].t = "num"
                THEN ParseRule("trailers", toks, i + 1, Constant(toks[i].v))
            ELSE IF toks[i].t = "str" THEN
                LET r == StrRun(toks, i)
                IN  ParseRule("trailers", toks, r.i, Constant(PyStrObj(r.v)))
            ELSE IF toks[i].t = "name"
                THEN ParseRule("trailers", toks, i + 1, Name(toks[i].v))
            ELSE IF IsOpIn(toks, i, {"(", "["}) THEN
                LET r == ParseRule("exprs", toks, i + 1, <<>>)
                    close == IF toks[i].v = "(" THEN ")" ELSE "]"
                IN  IF r.i = 0 \/ ~IsOp(toks, r.i, close) THEN PFail
                    ELSE IF toks[i].v = "["
                        THEN ParseRule("trailers", toks, r.i + 1, OtherNode("List", r.elts))
                    ELSE IF r.comma \/ r.elts = <<>>
                        THEN ParseRule("trailers", toks, r.i + 1, OtherNode("Tuple", r.elts))
                    ELSE ParseRule("trailers", toks, r.i + 1, r.elts[1])
            ELSE PFail
      [] rule = "trailers" ->
            \* a is the node the trailers apply to
            IF IsOp(toks, i, "(") THEN
                LET r == ParseRule("args", toks, i + 1, [args |-> <<>>, kw |-> <<>>])
                IN  IF r.i = 0 \/ ~IsOp(toks, r.i, ")") THEN PFail
                    ELSE ParseRule("trailers", toks, r.i + 1, Call(a, r.args, r.kw))
            ELSE IF IsOp(toks, i, ".") THEN
                IF i + 1 <= Len(toks) /\ toks[i + 1].t = "name"
                THEN ParseRule("trailers", toks, i + 2, OtherNode("Attribute", <<a>>))
                ELSE PFail
            ELSE IF IsOp(toks, i, "[") THEN
                LET r == ParseRule("exprs", toks, i + 1, <<>>)
                IN  IF r.i = 0 \/ r.elts = <<>> \/ ~IsOp(toks, r.i, "]") THEN PFail
                    ELSE ParseRule("trailers", toks, r.i + 1,
                                   OtherNode("Subscript", <<a>> \o r.elts))
            ELSE POk(a, i)

\* ast.parse(s, mode="eval"): Ok(tree), a SyntaxError, or a text the
\* model does not read.
\* The tree of a token sequence that the parser has read up to r.i.
Parsed(toks, r) ==
    IF r.i # Len(toks) + 1 \/ r.elts = <<>> THEN Raise("SyntaxError", <<"invalid syntax">>)
    ELSE IF r.comma THEN Ok(OtherNode("Tuple", r.elts))
    ELSE Ok(r.elts[1])

ParseTokens(s, toks) ==
    IF s # <<>> /\ s[1] = " " THEN Raise("IndentationError", <<"unexpected indent">>)
    ELSE IF \E i \in 1..Len(toks) : toks[i].t = "err"
        THEN Raise("SyntaxError", <<"invalid syntax">>)
    ELSE IF \E i \in 1..Len(toks) : toks[i].t = "unmodelled" THEN Unmodelled
    ELSE IF \E i \in 2..Len(toks) : IsOpIn(toks, i, {"*", "**"})
                                      /\ IsOpIn(toks, i - 1, {"(", "[", ","})
        THEN Unmodelled
    ELSE Parsed(toks, ParseRule("exprs", toks, 1, <<>>))

\* ast.parse(s, mode="eval"): the tree of the expression, or the failure.
Parse(s) == ParseTokens(s, Lex(s, 1))


(***************************************************************************)
(* Identifiers of the evaluator, as text.                                  *)
(***************************************************************************)
N_sqrt == <<"s", "q", "r", "t">>
N_abs == <<"a", "b", "s">>
N_round == <<"r", "o", "u", "n", "d">>
N_floor == <<"f", "l", "o", "o", "r">>
N_ceil == <<"c", "e", "i", "l">>
N_fact == <<"f", "a", "c", "t">>
N_factorial == <<"f", "a", "c", "t", "o", "r", "i", "a", "l">>
N_exp == <<"e", "x", "p">>
N_ln == <<"l", "n">>
N_log == <<"l", "o", "g">>
N_log2 == <<"l", "o", "g", "2">>
N_sin == <<"s", "i", "n">>
N_cos == <<"c", "o", "s">>
N_tan == <<"t", "a", "n">>
N_asin == <<"a", "s", "i", "n">>
N_acos == <<"a", "c", "o", "s">>
N_atan == <<"a", "t", "a", "n">>
N_sinh == <<"s", "i", "n", "h">>
N_cosh == <<"c", "o", "s", "h">>
N_tanh == <<"t", "a", "n", "h">>
N_gamma == <<"g", "a", "m", "m", "a">>
N_pow == <<"p", "o", "w">>
N_pi == <<"p", "i">>
N_e == <<"e">>
N_ans == <<"a", "n", "s">>
N_mem == <<"m", "e", "m">>

(***************************************************************************)
(* The math library behind the allow-list.  A function object is           *)
(* [fn |-> name]; calling it gives a value, raises, or (digits the model   *)
(* does not compute) gives the term Sym(name, argument).                   *)
(***************************************************************************)
Native(name) == [fn |-> name]
MathPi == MkFloat(314159265, -8)
MathE == MkFloat(271828183, -8)
DomainError == Raise("ValueError", <<"math domain error">>)
RangeError == Raise("OverflowError", <<"math range error">>)

RECURSIVE Factorial(_)
Factorial(n) == IF n <= 1 THEN 1 ELSE n * Factorial(n - 1)

\* x < 0, x = 0, x > 0 for a finite number.
NumSign(x) == IF x.k = "int" THEN (IF x.v < 0 THEN -1 ELSE IF x.v = 0 THEN 0 ELSE 1)
              ELSE (IF x.m < 0 THEN -1 ELSE IF x.m = 0 THEN 0 ELSE 1)

\* |x| > n for a finite number x and a natural n < 10^8.
AbsExceeds(x, n) ==
    LET f == ToFloat(x)
    IN  f.k = "inf" \/ (f.m # 0 /\ (AdjExp(f) > 9 \/
            (AdjExp(f) >= 1 /\ IF f.x >= 0 THEN Abs(f.m) * (10 ^ f.x) > n
                               ELSE Abs(f.m) > n * (10 ^ (-f.x)))))

\* The float x rounded to an int: floor, ceiling, or half to even.
FloatToIntBy(x, how) ==
    IF x.x >= 0 THEN FloatToInt(x)
    ELSE IF -x.x > 9 THEN Unmodelled
    ELSE LET p == 10 ^ (-x.x)
             fl == IntFloorDiv(x.m, p)
             r == x.m - fl * p
         IN  Ok(PyInt(CASE how = "floor" -> fl
                        [] how = "ceil" -> fl + 1
                        [] OTHER -> IF 2 * r > p \/ (2 * r = p /\ fl % 2 = 1)
                                    THEN fl + 1 ELSE fl))

RECURSIVE ExactLog(_, _, _)
\* k with b^k = n (n >= 1), or -1.
ExactLog(n, b, k) == IF n = 1 THEN k
                     ELSE IF n % b # 0 THEN -1
                     ELSE ExactLog(n \div b, b, k + 1)

\* A one-argument function of the math library (or a builtin) on a number.
MathFn(name, x) ==
    IF x.k = "sym" THEN
        (IF name \in {"math.sin", "math.cos", "math.tan", "math.degrees"}
         THEN Ok(Sym(name, x)) ELSE Unmodelled)
    ELSE IF ~IsFinite(x) THEN Unmodelled
    ELSE IF ~ExactFloat(x) /\ name \notin {"abs", "round", "math.floor", "math.ceil",
                                            "math.factorial"} THEN Unmodelled
    ELSE CASE name = "abs" ->
                IF x.k = "int" THEN Ok(PyInt(Abs(x.v))) ELSE Ok(PyFloat(Abs(x.m), x.x))
           [] name \in {"round", "math.floor", "math.ceil"} ->
                IF x.k = "int" THEN Ok(x)
                ELSE FloatToIntBy(x, IF name = "math.floor" THEN "floor"
                                     ELSE IF name = "math.ceil" THEN "ceil" ELSE "even")
           [] name = "math.factorial" ->
                IF x.k = "float"
                THEN Raise("TypeError", <<"'float' object cannot be interpreted as an integer">>)
                ELSE IF x.v < 0
                THEN Raise("ValueError", <<"factorial() not defined for negative values">>)
                ELSE IF x.v <= 9 THEN IntResult(Factorial(x.v))
                ELSE IF x.v >= 1559 THEN Ok(HugeInt("factorial", x.v))
                ELSE Unmodelled
           [] name = "math.sqrt" ->
                IF NumSign(x) < 0 THEN DomainError
                ELSE IF IsSquare(ToFloat(x)) THEN Ok(FloatSqrt(ToFloat(x)))
                ELSE Ok(Sym(name, x))
           [] name = "math.exp" ->
                IF NumSign(x) = 0 THEN Ok(PyFloat(1, 0))
                ELSE IF NumSign(x) > 0 /\ AbsExceeds(x, 709) THEN RangeError
                ELSE IF NumSign(x) < 0 /\ AbsExceeds(x, 745) THEN Ok(PyFloat(0, 0))
                ELSE Ok(Sym(name, x))
           [] name \in {"math.log", "math.log10", "math.log2"} ->
                IF NumSign(x) <= 0 THEN DomainError
                ELSE IF x = PyInt(1) \/ x = PyFloat(1, 0) THEN Ok(PyFloat(0, 0))
                ELSE IF name = "math.log10" /\ x.k = "int" /\ ExactLog(x.v, 10, 0) >= 0
                    THEN Ok(MkFloat(ExactLog(x.v, 10, 0), 0))
                ELSE IF name = "math.log2" /\ x.k = "int" /\ ExactLog(x.v, 2, 0) >= 0
                    THEN Ok(MkFloat(ExactLog(x.v, 2, 0), 0))
                ELSE Ok(Sym(name, x))
           [] name \in {"math.sin", "math.tan", "math.asin", "math.atan", "math.sinh",
                        "math.tanh", "math.radians", "math.degrees"} ->
                IF NumSign(x) = 0 THEN Ok(PyFloat(0, 0))
                ELSE IF name = "math.asin" /\ AbsExceeds(x, 1) THEN DomainError
                ELSE IF name = "math.sinh" /\ AbsExceeds(x, 710) THEN RangeError
                ELSE Ok(Sym(name, x))
           [] name \in {"math.cos", "math.cosh"} ->
                IF NumSign(x) = 0 THEN Ok(PyFloat(1, 0))
                ELSE IF name = "math.cosh" /\ AbsExceeds(x, 710) THEN RangeError
                ELSE Ok(Sym(name, x))
           [] name = "math.acos" ->
                IF AbsExceeds(x, 1) THEN DomainError
                ELSE IF x = PyInt(1) \/ x = PyFloat(1, 0) THEN Ok(PyFloat(0, 0))
                ELSE Ok(Sym(name, x))
           [] name = "math.gamma" ->
                IF x.k = "int" /\ x.v <= 0 THEN DomainError
                ELSE IF x.k = "float" /\ x.x >= 0 /\ x.m <= 0 THEN DomainError
                ELSE IF x.k = "int" /\ x.v <= 10 THEN Ok(MkFloat(Factorial(x.v - 1), 0))
                ELSE IF AbsExceeds(x, 171) THEN RangeError
                ELSE Ok(Sym(name, x))

\* math.pow(a, b): float power; its failures are ValueError or OverflowError.
MathPow(a, b) ==
    IF ~IsFinite(a) \/ ~IsFinite(b) \/ ~ExactFloat(a) \/ ~ExactFloat(b) THEN Unmodelled
    ELSE LET f == ToFloat(a)
             g == ToFloat(b)
         IN  IF f.k = "inf" \/ g.k = "inf" THEN Unmodelled
             ELSE IF f.m < 0 /\ g.x < 0 THEN DomainError
             ELSE LET r == FloatPow(f, g)
                  IN  IF r.out = "raise" /\ r.exc = "ZeroDivisionError" THEN DomainError
                      ELSE IF r.out = "raise" THEN RangeError
                      ELSE r

\* The library functions a function object applies in turn: the degree
\* wrappers convert the argument to radians first, or the result to degrees.
Composition(name) ==
    CASE name = "deg.sin" -> <<"math.radians", "math.sin">>
      [] name = "deg.cos" -> <<"math.radians", "math.cos">>
      [] name = "deg.tan" -> <<"math.radians", "math.tan">>
      [] name = "deg.asin" -> <<"math.asin", "math.degrees">>
      [] name = "deg.acos" -> <<"math.acos", "math.degrees">>
      [] name = "deg.atan" -> <<"math.atan", "math.degrees">>
      [] OTHER -> <<name>>

RECURSIVE Compose(_, _)
\* The functions of fns applied in turn to the value of r, up to the first
\* that does not give a value.
Compose(fns, r) ==
    IF fns = <<>> \/ r.out # "ok" THEN r
    ELSE Compose(Tail(fns), MathFn(Head(fns), r.v))

\* f(*args) for an object f of the allow-list.
ApplyNative(f, args) ==
    IF "fn" \notin DOMAIN f THEN Raise("TypeError", <<"'float' object is not callable">>)
    ELSE IF f.fn = "math.pow" THEN
        (IF Len(args) = 2 THEN MathPow(args[1], args[2])
         ELSE Raise("TypeError", <<"pow expected 2 arguments">>))
    ELSE IF Len(args) = 0 \/ (Len(args) > 1 /\ f.fn \notin {"round", "math.log"})
            \/ Len(args) > 2
        THEN Raise("TypeError", <<"wrong number of arguments">>)
    ELSE IF Len(args) = 2 THEN Unmodelled
    ELSE Compose(Composition(f.fn), Ok(args[1]))


(***************************************************************************)
(* Scientic_Cal.py: the operator tables, the allow-list and SafeEval.      *)
(*                                                                         *)
(* A visit returns [res, tr]: the outcome, and the operations the visit    *)
(* has invoked, in order: operator applications, calls of allow-listed     *)
(* objects and name lookups that succeeded.                                *)
(***************************************************************************)
BIN_OPS == [Add |-> "add", Sub |-> "sub", Mult |-> "mul", Div |-> "truediv",
            Mod |-> "mod", Pow |-> "pow", FloorDiv |-> "floordiv"]

UNARY_OPS == [UAdd |-> "pos", USub |-> "neg"]

\* The functions of the operator module, where the model computes them.
OperatorRaw(fn, args) ==
    CASE fn = "add" -> PyAdd(args[1], args[2])
      [] fn = "sub" -> PySub(args[1], args[2])
      [] fn = "mul" -> PyMul(args[1], args[2])
      [] fn = "truediv" -> PyTrueDiv(args[1], args[2])
      [] fn = "mod" -> PyMod(args[1], args[2])
      [] fn = "pow" -> PyPow(args[1], args[2])
      [] fn = "floordiv" -> PyFloorDiv(args[1], args[2])
      [] fn = "pos" -> PyPos(args[1])
      [] fn = "neg" -> PyNeg(args[1])

\* An operation converts its int operands to float when another operand is
\* a float, for a true division, and for a negative int power.
ConvertsToFloat(fn, args) ==
    \/ \E i \in 1..Len(args) : IsFloat(args[i])
    \/ fn = "truediv"
    \/ (fn = "pow" /\ args[2].k = "int" /\ args[2].v < 0)

\* The outcome r of an operation, where the model computes it exactly.
Computed(fn, args, r) ==
    IF r.out = "raise" /\ r.exc = "ZeroDivisionError" THEN r
    ELSE IF ConvertsToFloat(fn, args) /\ \E i \in 1..Len(args) : ~ExactFloat(args[i])
        THEN Unmodelled
    ELSE r

Operator(fn, args) == Computed(fn, args, OperatorRaw(fn, args))

OpEvent(fn, args) == [ev |-> "op", fn |-> fn, args |-> args]
CallEvent(fname, func, args) == [ev |-> "call", name |-> fname, func |-> func, args |-> args]
NameEvent(id) == [ev |-> "name", id |-> id]

R(res, tr) == [res |-> res, tr |-> tr]

\* The wrappers that make the trigonometric functions respect the mode.
TrigFuncs(mode) ==
    IF mode = "deg"
    THEN [sin |-> Native("deg.sin"), cos |-> Native("deg.cos"), tan |-> Native("deg.tan"),
          asin |-> Native("deg.asin"), acos |-> Native("deg.acos"),
          atan |-> Native("deg.atan")]
    ELSE [sin |-> Native("math.sin"), cos |-> Native("math.cos"), tan |-> Native("math.tan"),
          asin |-> Native("math.asin"), acos |-> Native("math.acos"),
          atan |-> Native("math.atan")]

allowed_funcs(mode) ==
    LET t == TrigFuncs(mode)
    IN  (N_sqrt :> Native("math.sqrt")) @@ (N_abs :> Native("abs"))
        @@ (N_round :> Native("round")) @@ (N_floor :> Native("math.floor"))
        @@ (N_ceil :> Native("math.ceil")) @@ (N_fact :> Native("math.factorial"))
        @@ (N_factorial :> Native("math.factorial")) @@ (N_exp :> Native("math.exp"))
        @@ (N_ln :> Native("math.log")) @@ (N_log :> Native("math.log10"))
        @@ (N_log2 :> Native("math.log2"))
        @@ (N_sin :> t.sin) @@ (N_cos :> t.cos) @@ (N_tan :> t.tan)
        @@ (N_asin :> t.asin) @@ (N_acos :> t.acos) @@ (N_atan :> t.atan)
        @@ (N_sinh :> Native("math.sinh")) @@ (N_cosh :> Native("math.cosh"))
        @@ (N_tanh :> Native("math.tanh")) @@ (N_gamma :> Native("math.gamma"))
        @@ (N_pow :> Native("math.pow")) @@ (N_pi :> MathPi) @@ (N_e :> MathE)

allowed_names == (N_pi :> MathPi) @@ (N_e :> MathE)

\* An allow-list whose sinh, too, takes its argument in degrees.
make_allowed_funcs_Sinh(mode) ==
    [funcs |-> (N_sinh :> (IF mode = "deg" THEN Native("deg.sin") ELSE Native("math.sinh")))
                   @@ allowed_funcs(mode),
     names |-> allowed_names]

make_allowed_funcs(mode) == [funcs |-> allowed_funcs(mode), names |-> allowed_names]

visit_Constant(node) ==
    IF node.value.k \in {"int", "float", "inf"} THEN R(Ok(node.value), <<>>)
    ELSE R(Raise("ValueError", <<"Only numeric constants are allowed">>), <<>>)

visit_Name(node, names) ==
    IF node.id \in DOMAIN names THEN R(Ok(names[node.id]), <<NameEvent(node.id)>>)
    ELSE R(Raise("ValueError", <<"Name is not allowed", node.id>>), <<>>)

generic_visit(node) ==
    R(Raise("ValueError", <<"Unsupported expression element", node.type>>), <<>>)

\* visit_BinOp once both operands are visited (the right one only matters
\* when the left one gave a value).
BinOpResult(node, left, right) ==
    IF left.res.out # "ok" THEN left
    ELSE IF right.res.out # "ok" THEN R(right.res, left.tr \o right.tr)
    ELSE IF node.op \in DOMAIN BIN_OPS
        THEN R(Operator(BIN_OPS[node.op], <<left.res.v, right.res.v>>),
               left.tr \o right.tr
                   \o <<OpEvent(BIN_OPS[node.op], <<left.res.v, right.res.v>>)>>)
    ELSE R(Raise("ValueError", <<"Operator is not allowed", node.op>>),
           left.tr \o right.tr)

\* visit_UnaryOp once the operand is visited.
UnaryOpResult(node, operand) ==
    IF operand.res.out # "ok" THEN operand
    ELSE IF node.op \in DOMAIN UNARY_OPS
        THEN R(Operator(UNARY_OPS[node.op], <<operand.res.v>>),
               operand.tr \o <<OpEvent(UNARY_OPS[node.op], <<operand.res.v>>)>>)
    ELSE R(Raise("ValueError", <<"Unary operator is not allowed", node.op>>),
           operand.tr)

\* except Exception as e: raise ValueError(f"Error calling {fname}: {e}")
CallOutcome(fname, called) ==
    IF called.out = "raise"
    THEN Raise("ValueError", <<"Error calling", fname, called.msg>>)
    ELSE called

\* visit_Call once the callee is found in the allow-list and the arguments
\* are visited.
CallResult(node, func, args) ==
    IF args.res.out # "ok" THEN args
    ELSE IF node.keywords # <<>>
        THEN R(Raise("ValueError", <<"Keyword arguments not allowed">>), args.tr)
    ELSE R(CallOutcome(node.func.id, ApplyNative(func, args.res.v)),
           args.tr \o <<CallEvent(node.func.id, func, args.res.v)>>)

RECURSIVE visit(_, _, _), visit_BinOp(_, _, _), visit_UnaryOp(_, _, _)
RECURSIVE visit_Call(_, _, _), VisitArgs(_, _, _, _, _), NextArg(_, _, _, _, _, _)

visit(node, funcs, names) ==
    CASE node.type = "Constant" -> visit_Constant(node)
      [] node.type = "BinOp" -> visit_BinOp(node, funcs, names)
      [] node.type = "UnaryOp" -> visit_UnaryOp(node, funcs, names)
      [] node.type = "Call" -> visit_Call(node, funcs, names)
      [] node.type = "Name" -> visit_Name(node, names)
      [] OTHER -> generic_visit(node)

visit_BinOp(node, funcs, names) ==
    BinOpResult(node, visit(node.left, funcs, names), visit(node.right, funcs, names))

visit_UnaryOp(node, funcs, names) ==
    UnaryOpResult(node, visit(node.operand, funcs, names))

\* [self.visit(arg) for arg in node.args] from index i on: the values in
\* res.v, or the first outcome that is not a value.
VisitArgs(argNodes, i, funcs, names, acc) ==
    IF i > Len(argNodes) THEN acc
    ELSE NextArg(argNodes, i, funcs, names, acc, visit(argNodes[i], funcs, names))

\* The list of visited arguments after argument i is visited with outcome a.
NextArg(argNodes, i, funcs, names, acc, a) ==
    IF a.res.out # "ok" THEN R(a.res, acc.tr \o a.tr)
    ELSE VisitArgs(argNodes, i + 1, funcs, names,
                   R(Ok(Append(acc.res.v, a.res.v)), acc.tr \o a.tr))

\* visit_Call without the look-up of the callee in the allow-list: a name
\* that is not there calls the builtin abs.
visit_Call_Unlisted(node, funcs, names) ==
    IF node.func.type # "Name"
    THEN R(Raise("ValueError", <<"Only direct function calls by name are allowed">>), <<>>)
    ELSE CallResult(node,
                    IF node.func.id \in DOMAIN funcs THEN funcs[node.func.id]
                    ELSE Native("abs"),
                    VisitArgs(node.args, 1, funcs, names, R(Ok(<<>>), <<>>)))

visit_Call(node, funcs, names) ==
    IF node.func.type # "Name"
    THEN R(Raise("ValueError", <<"Only direct function calls by name are allowed">>), <<>>)
    ELSE IF node.func.id \notin DOMAIN funcs
    THEN R(Raise("ValueError", <<"Function is not allowed", node.func.id>>), <<>>)
    ELSE CallResult(node, funcs[node.func.id],
                    VisitArgs(node.args, 1, funcs, names, R(Ok(<<>>), <<>>)))

\* A merge that keeps the session's mem bound whatever the caller passes.
MergeNames_Sticky(names, extra_names) == extra_names @@ names @@ (N_mem :> PyInt(0))

\* {**allowed_names, **extra_names} when extra_names is not empty.
MergeNames(names, extra_names) ==
    IF DOMAIN extra_names # {} THEN extra_names @@ names ELSE names

\* tree = ast.parse(expr, mode="eval"), its failure reported as a
\* ValueError, then evaluator.visit(tree).
VisitParsed(parsed, funcs, names) ==
    IF parsed.out = "raise"
    THEN R(Raise("ValueError", <<"Parse error", parsed.msg>>), <<>>)
    ELSE IF parsed.out = "unmodelled" THEN R(Unmodelled, <<>>)
    ELSE visit(parsed.v, funcs, names)

\* safe_eval(expr, mode, extra_names), with the trace of its evaluator.
safe_eval(expr, mode, extra_names) ==
    VisitParsed(Parse(expr), make_allowed_funcs(mode).funcs,
                MergeNames(make_allowed_funcs(mode).names, extra_names))

(***************************************************************************)
(* Calculator.py: the operator table and safe_eval with its inner _eval.   *)
(***************************************************************************)
ALLOWED_OPERATORS == [Add |-> "add", Sub |-> "sub", Mult |-> "mul", Div |-> "truediv",
                      Pow |-> "pow", Mod |-> "mod", USub |-> "neg", UAdd |-> "pos"]

\* _eval of a BinOp once both operands are evaluated.
EvalBinOp(node, left, right) ==
    IF left.res.out # "ok" THEN left
    ELSE IF right.res.out # "ok" THEN R(right.res, left.tr \o right.tr)
    ELSE IF node.op \in DOMAIN ALLOWED_OPERATORS
        THEN R(Operator(ALLOWED_OPERATORS[node.op], <<left.res.v, right.res.v>>),
               left.tr \o right.tr
                   \o <<OpEvent(ALLOWED_OPERATORS[node.op], <<left.res.v, right.res.v>>)>>)
    ELSE R(Raise("ValueError", <<"Operator not allowed", node.op>>),
           left.tr \o right.tr)

\* _eval of a UnaryOp once the operand is evaluated.
EvalUnaryOp(node, operand) ==
    IF operand.res.out # "ok" THEN operand
    ELSE IF node.op \in DOMAIN ALLOWED_OPERATORS
        THEN R(Operator(ALLOWED_OPERATORS[node.op], <<operand.res.v>>),
               operand.tr \o <<OpEvent(ALLOWED_OPERATORS[node.op], <<operand.res.v>>)>>)
    ELSE R(Raise("ValueError", <<"Unary operator not allowed", node.op>>),
           operand.tr)

RECURSIVE Eval(_)
\* _eval(node)
Eval(node) ==
    CASE node.type = "Constant" ->
            IF node.value.k \in {"int", "float", "inf"} THEN R(Ok(node.value), <<>>)
            ELSE R(Raise("ValueError", <<"Only numeric constants allowed">>), <<>>)
      [] node.type = "BinOp" -> EvalBinOp(node, Eval(node.left), Eval(node.right))
      [] node.type = "UnaryOp" -> EvalUnaryOp(node, Eval(node.operand))
      [] node.type = "Call" ->
            R(Raise("ValueError", <<"Function calls are not allowed">>), <<>>)
      [] OTHER ->
            R(Raise("ValueError", <<"Unsupported expression element", node.type>>), <<>>)

\* parsed = ast.parse(expr, mode='eval'), its failure reported as a
\* ValueError, then _eval(parsed).
EvalParsed(parsed) ==
    IF parsed.out = "raise"
    THEN R(Raise("ValueError", <<"Invalid expression", parsed.msg>>), <<>>)
    ELSE IF parsed.out = "unmodelled" THEN R(Unmodelled, <<>>)
    ELSE Eval(parsed.v)

\* Calculator.safe_eval(expr)
calc_safe_eval(expr) == EvalParsed(Parse(expr))


(***************************************************************************)
(* Scientic_Cal.py: the session state and the handlers of the page.        *)
(***************************************************************************)
VARIABLES expr, ans, mem, history, mode, last_error

sessionVars == <<expr, ans, mem, history, mode, last_error>>

\* Bounds of the exploration: the records the log may hold, the magnitude
\* the memory register may reach, and the buffer length up to which the
\* buttons append.
MaxHist == 2
MaxMem == 1
MaxPressLen == 1

\* The token every appending button of the grid passes to append_to_expr.
ButtonTokens ==
    {<<"(">>, <<")">>, <<"%">>, <<"/">>, <<"s", "i", "n", "(">>, <<"c", "o", "s", "(">>,
     <<"t", "a", "n", "(">>, <<"l", "n", "(">>, <<"l", "o", "g", "(">>,
     <<"s", "q", "r", "t", "(">>, <<"*", "*", "2">>, <<"*", "*">>,
     <<"p", "o", "w", "(", "1", "0", ",">>, <<"e", "x", "p", "(">>,
     <<"f", "a", "c", "t", "o", "r", "i", "a", "l", "(">>, <<"7">>, <<"8">>, <<"9">>, <<"*">>,
     <<"4">>, <<"5">>, <<"6">>, <<"-">>, <<"1">>, <<"2">>, <<"3">>, <<"+">>, <<"0">>, <<".">>,
     <<"*", "(", "-", "1", ")">>, <<"p", "i">>, <<"e">>, <<"l", "o", "g", "2", "(">>,
     <<"f", "l", "o", "o", "r", "(">>, <<"c", "e", "i", "l", "(">>}

\* The texts typed into the expression box, and the grid buttons pressed.
TypedExprs ==
    {<<"2", "+", "2">>, <<"1", "/", "4">>, <<"1", "/", "0">>, <<"1", "e", "9", "9", "9">>,
     <<"1", "0", "*", "*", "4", "3", "0", "0">>, <<" ", "7">>, <<"c", "o", "s", "(", "0", ")">>}

PressTokens == {<<"1">>, <<"+">>}

Modes == {"deg", "rad"}

RECURSIVE Strip(_)
\* str.strip()
Strip(s) ==
    IF s = <<>> THEN s
    ELSE IF s[1] = " " THEN Strip(Tail(s))
    ELSE IF s[Len(s)] = " " THEN Strip(SubSeq(s, 1, Len(s) - 1))
    ELSE s

\* The extra_names every handler passes to safe_eval.
SessionNames(a, m) == (N_ans :> a) @@ (N_mem :> m)

SessionInit ==
    /\ expr = <<>>
    /\ ans = PyInt(0)
    /\ mem = PyInt(0)
    /\ history = <<>>
    /\ mode = "deg"
    /\ last_error = <<>>

\* The page draws "Ans = ..." and "Mem = ..." above the button grid: the
\* grid is on the page only when both numbers have a text.
GridRendered == PyStr(ans).out = "ok" /\ PyStr(mem).out = "ok"

\* The history section is drawn below the grid, one line per record.
HistoryRendered ==
    GridRendered /\ \A i \in 1..Len(history) : PyStr(history[i].result).out = "ok"

\* The user edits the expression box (the text_input keyed "expr").
EditExpr(s) ==
    /\ expr' = s
    /\ UNCHANGED <<ans, mem, history, mode, last_error>>

append_to_expr(token) ==
    /\ GridRendered
    /\ Len(expr) < MaxPressLen
    /\ expr' = expr \o token
    /\ UNCHANGED <<ans, mem, history, mode, last_error>>

\* The Ans button: append_to_expr(str(ans)).
AnsButton ==
    /\ GridRendered
    /\ Len(expr) < MaxPressLen
    /\ expr' = expr \o PyStr(ans).v
    /\ UNCHANGED <<ans, mem, history, mode, last_error>>

\* The AC button: set_expr("").
set_expr(value) ==
    /\ GridRendered
    /\ expr' = value
    /\ UNCHANGED <<ans, mem, history, mode, last_error>>

backspace ==
    /\ GridRendered
    /\ Len(expr) <= MaxPressLen
    /\ expr' = SubSeq(expr, 1, Len(expr) - 1)
    /\ UNCHANGED <<ans, mem, history, mode, last_error>>

\* The value evaluate_expression stores: the float val as an int when
\* val.is_integer().
Integral(val) ==
    IF val.k = "sym" THEN Unmodelled
    ELSE IF FloatIsInteger(val) THEN FloatToInt(val)
    ELSE Ok(val)

\* The session as a record; modelled tells whether the model computes the
\* handler's outcome.
Session ==
    [modelled |-> TRUE, expr |-> expr, ans |-> ans, history |-> history,
     last_error |-> last_error]

\* Lines 238-241 of evaluate_expression for the value val, whose str(val)
\* is text.  The wall-clock time of a history record is left out.
StoreResult(e, val, text) ==
    IF text.out = "unmodelled" THEN [Session EXCEPT !.modelled = FALSE]
    ELSE IF text.out = "raise"
        THEN [Session EXCEPT !.ans = val,
                             !.history = <<[expression |-> e, result |-> val,
                                            mode |-> mode]>> \o history,
                             !.last_error = text.msg]
    ELSE [Session EXCEPT !.ans = val,
                         !.history = <<[expression |-> e, result |-> val,
                                        mode |-> mode]>> \o history,
                         !.expr = text.v,
                         !.last_error = <<>>]

\* Lines 236-237, then the rest of the try block, for the converted value.
StoreIntegral(e, val) ==
    IF val.out # "ok" THEN [Session EXCEPT !.modelled = FALSE]
    ELSE StoreResult(e, val.v, PyStr(val.v))

\* evaluate_expression for the stripped text e, r being what safe_eval gave.
Evaluated(e, r) ==
    IF e = <<>> THEN [Session EXCEPT !.last_error = <<"Empty expression.">>]
    ELSE IF r.out = "unmodelled" THEN [Session EXCEPT !.modelled = FALSE]
    ELSE IF r.out = "raise" THEN [Session EXCEPT !.last_error = r.msg]
    ELSE StoreIntegral(e, Integral(r.v))

\* The session after evaluate_expression.
EvaluateResult ==
    Evaluated(Strip(expr), safe_eval(Strip(expr), mode, SessionNames(ans, mem)).res)

\* The "=" button.
evaluate_expression ==
    /\ GridRendered
    /\ Len(history) < MaxHist
    /\ \E r \in {EvaluateResult} :
        /\ r.modelled
        /\ expr' = r.expr
        /\ ans' = r.ans
        /\ history' = r.history
        /\ last_error' = r.last_error
    /\ UNCHANGED <<mem, mode>>

do_clear_history ==
    /\ HistoryRendered
    /\ history # <<>>
    /\ history' = <<>>
    /\ UNCHANGED <<expr, ans, mem, mode, last_error>>

\* except Exception: val = st.session_state.ans
OrAns(r) == IF r.out = "raise" THEN Ok(ans) ELSE r

\* The value the memory buttons take: the expression's, or ans when its
\* evaluation raises.
MemoryOperand == OrAns(safe_eval(expr, mode, SessionNames(ans, mem)).res)

\* Whether the memory register may hold v in this exploration.
MemBounded(v) ==
    CASE v.k = "int" -> Abs(v.v) <= MaxMem
      [] OTHER -> v.k \in {"inf", "nan"}

\* mem + val or mem - val for the operand val, when the model has it.
MemoryResult(fn, val) == IF val.out = "ok" THEN Operator(fn, <<mem, val.v>>) ELSE val

\* What the statement mem += val (fn = "add") or mem -= val (fn = "sub")
\* of a memory button gives in this state.
MemoryOutcome(fn) == MemoryResult(fn, MemoryOperand)

\* M+ and M-: mem += val, mem -= val.  When the statement raises, the
\* exception leaves the handler and the session stays as it is.
MemoryUpdate(fn) ==
    /\ GridRendered
    /\ \E r \in {MemoryOutcome(fn)} :
        \/ r.out = "ok" /\ MemBounded(r.v) /\ mem' = r.v
        \/ r.out = "raise" /\ mem' = mem
    /\ UNCHANGED <<expr, ans, history, mode, last_error>>

memory_store_add == MemoryUpdate("add")

memory_sub == MemoryUpdate("sub")

memory_recall ==
    /\ GridRendered
    /\ Len(expr) < MaxPressLen
    /\ expr' = expr \o PyStr(mem).v
    /\ UNCHANGED <<ans, mem, history, mode, last_error>>

memory_clear ==
    /\ GridRendered
    /\ mem' = PyInt(0)
    /\ UNCHANGED <<expr, ans, history, mode, last_error>>

toggle_mode ==
    /\ mode' = IF mode = "deg" THEN "rad" ELSE "deg"
    /\ UNCHANGED <<expr, ans, mem, history, last_error>>


(***************************************************************************)
(* Calls of safe_eval by a caller that owns the mapping of extra names:    *)
(* the expression, the mode and the mapping are the caller's, ret is what  *)
(* the call gave, lastExtra the mapping of the caller's previous call.     *)
(***************************************************************************)
VARIABLES callExpr, callMode, extraNames, lastExtra, ret

callVars == <<callExpr, callMode, extraNames, lastExtra, ret>>

NoNames == <<>>
NoRet == R([out |-> "none"], <<>>)

\* Operands and operators combined into the expressions a op b.
EvalAtoms == {<<"1">>, <<"0">>, <<"0", ".", "0">>, <<"[", "1", "]">>, <<"a", "n", "s">>, <<"x">>}

EvalOps == {<<"+">>, <<"/">>, <<"/", "/">>, <<"%">>}

EvalSamples ==
    {<<"2", "+", "2">>, <<"(", "1", "+", "2", ")", "+", "[", "1", "]">>,
     <<"1", "/", "0", "+", "[", "1", "]">>,
     <<"s", "q", "r", "t", "(", "4", ")", "+", "a", ".", "b">>,
     <<"p", "o", "w", "(", "2", ",", "1", "<", "2", ")">>,
     <<"s", "i", "n", "(", "3", "0", ")">>, <<"c", "o", "s", "(", "0", ")">>,
     <<"a", "s", "i", "n", "(", "1", ")">>, <<"a", "t", "a", "n", "(", "0", ")">>,
     <<"t", "a", "n", "(", "1", ")">>, <<"a", "c", "o", "s", "(", "1", ")">>,
     <<"s", "i", "n", "h", "(", "1", ")">>, <<"c", "o", "s", "h", "(", "0", ")">>,
     <<"t", "a", "n", "h", "(", "0", ")">>, <<"s", "q", "r", "t", "(", "4", ")">>,
     <<"l", "n", "(", "1", ")">>, <<"l", "o", "g", "(", "1", "0", "0", ")">>,
     <<"l", "o", "g", "2", "(", "8", ")">>, <<"e", "x", "p", "(", "0", ")">>,
     <<"f", "a", "c", "t", "o", "r", "i", "a", "l", "(", "3", ")">>,
     <<"f", "a", "c", "t", "(", "3", ")">>, <<"p", "o", "w", "(", "2", ",", "3", ")">>,
     <<"a", "b", "s", "(", "-", "1", ")">>,
     <<"r", "o", "u", "n", "d", "(", "2", ".", "5", ")">>,
     <<"f", "l", "o", "o", "r", "(", "2", ".", "5", ")">>,
     <<"c", "e", "i", "l", "(", "2", ".", "5", ")">>,
     <<"g", "a", "m", "m", "a", "(", "3", ")">>, <<"s", "q", "r", "t", "(", "-", "1", ")">>,
     <<"s", "q", "r", "t", "(", "1", "/", "0", ")">>, <<"p", "i">>, <<"e">>, <<"m", "e", "m">>,
     <<"p", "i", "(", "1", ")">>, <<"s", "i", "n">>,
     <<"o", "p", "e", "n", "(", "'", "x", "'", ")">>,
     <<"_", "_", "i", "m", "p", "o", "r", "t", "_", "_", "(", "'", "o", "s", "'", ")">>,
     <<"f", "(", "1", ")", "(", "2", ")">>, <<"1", "(", "2", ")">>, <<"f", "(", "1", ")">>,
     <<"a", ".", "b", "(", "1", ")">>, <<"s", "i", "n", "(", "x", "=", "1", ")">>,
     <<"s", "i", "n", "(", "1", ",", "[", "1", "]", ")">>, <<"1", "e", "9", "9", "9">>,
     <<"1", "0", "*", "*", "4", "3", "0", "0">>, <<"-", "1">>, <<"~", "1">>, <<"1", "@", "2">>,
     <<"1", "<", "2">>, <<"(", "1", ",", "2", ")">>, <<"x", "[", "0", "]">>, <<"'", "a", "'">>,
     <<"1", "j">>, <<>>, <<"1", "+">>, <<"5", "%", "0", ".", "0">>,
     <<"1", "/", "/", "0", ".", "0">>, <<"2", ".", "5", "/", "0">>,
     <<"s", "q", "r", "t", "(", "4", ")", "/", "0">>, <<"0", "/", "1">>,
     <<"1", "e", "9", "9", "9", "/", "0">>, <<"2", "*", "*", "-", "1">>,
     <<"s", "i", "n", "h", "(", "1", ")", "+", "c", "o", "s", "h", "(", "0", ")">>}

EvalExprs == EvalSamples \cup {a \o o \o b : a \in EvalAtoms, o \in EvalOps, b \in EvalAtoms}

ExtraNameSets == {NoNames, N_ans :> PyInt(5), SessionNames(PyInt(5), PyInt(0))}

CallInit ==
    /\ callExpr \in EvalExprs
    /\ callMode \in Modes
    /\ extraNames \in ExtraNameSets
    /\ lastExtra = NoNames
    /\ ret = NoRet

CallIdle ==
    /\ callExpr = <<>>
    /\ callMode = "rad"
    /\ extraNames = NoNames
    /\ lastExtra = NoNames
    /\ ret = NoRet

\* ret = safe_eval(callExpr, callMode, extraNames)
CallSafeEval ==
    /\ ret = NoRet
    /\ \E r \in {safe_eval(callExpr, callMode, extraNames)} :
        /\ r.res.out # "unmodelled"
        /\ ret' = r
    /\ UNCHANGED <<callExpr, callMode, extraNames, lastExtra>>

\* The caller prepares its next call, with another mapping.
NextCall(x) ==
    /\ ret # NoRet
    /\ lastExtra = NoNames
    /\ x # extraNames
    /\ extraNames' = x
    /\ lastExtra' = extraNames
    /\ ret' = NoRet
    /\ UNCHANGED <<callExpr, callMode>>

(***************************************************************************)
(* Calculator.py: the Calculate and Clear history buttons.  calcShown is   *)
(* the message the page shows, calcRet what the handler's call of          *)
(* safe_eval gave.                                                         *)
(***************************************************************************)
VARIABLES calcHistory, calcShown, calcRet

calcVars == <<calcHistory, calcShown, calcRet>>

\* The texts in the expression box when Calculate is pressed.
CalcExprs ==
    {<<"2", "+", "2">>, <<"(", "4", "-", "1", ")", "/", "4">>, <<"2", "*", "*", "3">>,
     <<"7", "%", "4">>, <<"-", "1">>, <<"+", "1">>, <<"1", "/", "/", "2">>, <<"1", "/", "0">>,
     <<"1", "%", "0">>, <<"5", "/", "0", ".", "0">>,
     <<"2", ".", "0", "*", "*", "9", "9", "9", "9">>, <<"0", "*", "*", "-", "1">>,
     <<"1", "e", "9", "9", "9">>, <<"1", "0", "*", "*", "4", "3", "0", "0">>, <<"x">>,
     <<"p", "i">>, <<"s", "i", "n", "(", "1", ")">>, <<"'", "a", "'">>, <<"1", "j">>,
     <<"[", "1", "]">>, <<"1", "<", "2">>, <<"(", "1", "+", "2", ")", "+", "[", "1", "]">>,
     <<"1", "/", "0", "+", "x">>, <<"x", "+", "1", "/", "0">>, <<>>, <<" ">>, <<" ", "1">>,
     <<"1", "+">>, <<"~", "1">>, <<"1", "@", "2">>, <<"a", ".", "b">>}

CalcInit ==
    /\ calcHistory = <<>>
    /\ calcShown = <<"none">>
    /\ calcRet = NoRet

\* The Calculator session as a record [modelled, history, shown, ret].
CalcSession ==
    [modelled |-> TRUE, history |-> calcHistory, shown |-> <<"none">>, ret |-> NoRet]

\* Lines 88-96 for the result r of safe_eval, whose text in the f-string is
\* shownText.
ShowResult(text, r, shownText) ==
    IF shownText.out = "unmodelled" THEN [CalcSession EXCEPT !.modelled = FALSE]
    ELSE IF shownText.out = "raise"
        THEN [CalcSession EXCEPT !.shown = <<"error", shownText.msg>>, !.ret = r]
    ELSE [CalcSession EXCEPT !.shown = <<"success", shownText.v>>, !.ret = r,
                             !.history = <<[expression |-> text, result |-> r.res.v]>>
                                             \o calcHistory]

\* The Calculate handler for the text in the box, r being what safe_eval
\* gave.
Calculated(text, r) ==
    IF Strip(text) = <<>> THEN [CalcSession EXCEPT !.shown = <<"warning">>]
    ELSE IF r.res.out = "unmodelled" THEN [CalcSession EXCEPT !.modelled = FALSE]
    ELSE IF r.res.out = "raise"
        THEN [CalcSession EXCEPT !.shown = <<"error", r.res.msg>>, !.ret = r]
    ELSE ShowResult(text, r, PyStr(r.res.v))

\* The session after Calculate.
CalculateResult(text) == Calculated(text, calc_safe_eval(text))

Calculate(text) ==
    /\ Len(calcHistory) < MaxHist
    /\ \E r \in {CalculateResult(text)} :
        /\ r.modelled
        /\ calcHistory' = r.history
        /\ calcShown' = r.shown
        /\ calcRet' = r.ret

CalcClearHistory ==
    /\ calcHistory' = <<>>
    /\ calcShown' = <<"none">>
    /\ calcRet' = NoRet

(***************************************************************************)
(* Specifications.                                                         *)
(***************************************************************************)
vars == <<sessionVars, callVars, calcVars>>

Init == SessionInit /\ CallIdle /\ CalcInit

NextUI ==
    \/ \E s \in TypedExprs : EditExpr(s) /\ UNCHANGED <<callVars, calcVars>>
    \/ \E t \in PressTokens : append_to_expr(t) /\ UNCHANGED <<callVars, calcVars>>
    \/ AnsButton /\ UNCHANGED <<callVars, calcVars>>
    \/ set_expr(<<>>) /\ UNCHANGED <<callVars, calcVars>>
    \/ backspace /\ UNCHANGED <<callVars, calcVars>>
    \/ evaluate_expression /\ UNCHANGED <<callVars, calcVars>>
    \/ do_clear_history /\ UNCHANGED <<callVars, calcVars>>
    \/ memory_store_add /\ UNCHANGED <<callVars, calcVars>>
    \/ memory_sub /\ UNCHANGED <<callVars, calcVars>>
    \/ memory_recall /\ UNCHANGED <<callVars, calcVars>>
    \/ memory_clear /\ UNCHANGED <<callVars, calcVars>>
    \/ toggle_mode /\ UNCHANGED <<callVars, calcVars>>

NextEval ==
    \/ CallSafeEval /\ UNCHANGED <<sessionVars, calcVars>>
    \/ \E x \in ExtraNameSets : NextCall(x) /\ UNCHANGED <<sessionVars, calcVars>>

NextCalc ==
    \/ \E text \in CalcExprs : Calculate(text) /\ UNCHANGED <<sessionVars, callVars>>
    \/ CalcClearHistory /\ UNCHANGED <<sessionVars, callVars>>

Next == NextUI \/ NextCalc

Spec == Init /\ [][Next]_vars

SpecUI == Init /\ [][NextUI]_vars

SpecCalc == Init /\ [][NextCalc]_vars

InitEval == SessionInit /\ CallInit /\ CalcInit

SpecEval == InitEval /\ [][NextEval]_vars


(***************************************************************************)
(* The properties checked.  In the runs of SpecEval, ret holds what the    *)
(* call of safe_eval(callExpr, callMode, extraNames) gave, with the trace  *)
(* of the operations its evaluator invoked.                                *)
(***************************************************************************)
Called == ret # NoRet

\* The tree of the caller's expression, when it parses.
CallTree == Parse(callExpr)

RECURSIVE HasDisallowed(_), AnyDisallowed(_, _)
\* The tree holds a node that is not a number literal, binary op, unary op,
\* call or identifier.
HasDisallowed(node) ==
    CASE node.type = "Constant" -> node.value.k \notin {"int", "float", "inf"}
      [] node.type = "Name" -> FALSE
      [] node.type = "BinOp" -> AnyDisallowed(<<node.left, node.right>>, 1)
      [] node.type = "UnaryOp" -> HasDisallowed(node.operand)
      [] node.type = "Call" ->
            AnyDisallowed(<<node.func>> \o node.args
                              \o [i \in 1..Len(node.keywords) |-> node.keywords[i].value], 1)
      [] OTHER -> TRUE

AnyDisallowed(nodes, i) ==
    i <= Len(nodes) /\ (HasDisallowed(nodes[i]) \/ AnyDisallowed(nodes, i + 1))

\* The evaluator applied an operator or called an allow-listed object.
Computes(tr) == \E i \in 1..Len(tr) : tr[i].ev \in {"op", "call"}

\* C1 (fail-closed ordering): a call of safe_eval on an expression whose
\* tree holds a disallowed node fails, and fails before any operator or
\* allow-listed function has been applied.
C1_FailsBeforeArithmetic ==
    (Called /\ CallTree.out = "ok" /\ HasDisallowed(CallTree.v))
        => (ret.res.out = "raise" /\ ~Computes(ret.tr))

\* C1, the part the code keeps: such a call always fails.
C1_DisallowedFails ==
    (Called /\ CallTree.out = "ok" /\ HasDisallowed(CallTree.v)) => ret.res.out = "raise"


RECURSIVE Subtrees(_), SubtreesOf(_, _)
\* The nodes of a tree that stand for an expression, in order; the name in
\* the callee position of a call is part of its Call node.
Subtrees(node) ==
    <<node>> \o
    CASE node.type \in {"Constant", "Name"} -> <<>>
      [] node.type = "BinOp" -> SubtreesOf(<<node.left, node.right>>, 1)
      [] node.type = "UnaryOp" -> Subtrees(node.operand)
      [] node.type = "Call" ->
            SubtreesOf((IF node.func.type = "Name" THEN <<>> ELSE <<node.func>>)
                           \o node.args
                           \o [i \in 1..Len(node.keywords) |-> node.keywords[i].value], 1)
      [] OTHER -> SubtreesOf(node.kids, 1)

SubtreesOf(nodes, i) ==
    IF i > Len(nodes) THEN <<>> ELSE Subtrees(nodes[i]) \o SubtreesOf(nodes, i + 1)

\* The numeric functions of the allow-list, as the objects a call invokes.
NumericFunctions(md) ==
    {allowed_funcs(md)[n] : n \in {m \in DOMAIN allowed_funcs(md) :
                                        "fn" \in DOMAIN allowed_funcs(md)[m]}}

\* A call whose callee is not a bare name of the allow-list.
ForbiddenCall(node, md) ==
    node.type = "Call"
        /\ (node.func.type # "Name" \/ node.func.id \notin DOMAIN allowed_funcs(md))

\* An identifier that is not bound in this call.
UnboundName(node, extra) ==
    node.type = "Name" /\ node.id \notin DOMAIN MergeNames(allowed_names, extra)

\* C2 (only allow-listed callables): every object a call of safe_eval
\* invokes is the allow-list's entry for the bare name of the callee, a
\* numeric function of the table when it is callable at all; an expression
\* with a call whose callee is no bare name or no name of the allow-list,
\* or with an identifier that is not bound, fails.
C2_OnlyAllowListedCalls ==
    Called =>
        /\ \A i \in 1..Len(ret.tr) :
              ret.tr[i].ev = "call" =>
                  /\ ret.tr[i].name \in DOMAIN allowed_funcs(callMode)
                  /\ ret.tr[i].func = allowed_funcs(callMode)[ret.tr[i].name]
                  /\ "fn" \in DOMAIN ret.tr[i].func
                        => ret.tr[i].func \in NumericFunctions(callMode)
        /\ CallTree.out = "ok" =>
              \A i \in 1..Len(Subtrees(CallTree.v)) :
                  (ForbiddenCall(Subtrees(CallTree.v)[i], callMode)
                       \/ UnboundName(Subtrees(CallTree.v)[i], extraNames))
                      => ret.res.out = "raise"

\* C2, reached: a call whose callee is a bare name outside the allow-list
\* has failed, and nothing was invoked.
C2_ForbiddenCallSeen ==
    /\ Called
    /\ CallTree.out = "ok"
    /\ \E i \in 1..Len(Subtrees(CallTree.v)) :
          /\ ForbiddenCall(Subtrees(CallTree.v)[i], callMode)
          /\ Subtrees(CallTree.v)[i].func.type = "Name"
    /\ ret.res.out = "raise"
    /\ ~Computes(ret.tr)


\* The evaluator applied a division, floor division or modulo to a right
\* operand equal to zero.
DividesByZero(tr) ==
    \E i \in 1..Len(tr) :
        /\ tr[i].ev = "op"
        /\ tr[i].fn \in {"truediv", "floordiv", "mod"}
        /\ IsZero(tr[i].args[2])

C4_NoPartialResult ==
    [][(evaluate_expression /\ last_error' # <<>>)
           => UNCHANGED <<ans, history, expr, mem>>]_vars

\* C4, the part the code keeps: a press of "=" whose call of safe_eval
\* raises changes nothing but last_error.
C4_FailedEvalKeepsSession ==
    [][(evaluate_expression
            /\ safe_eval(Strip(expr), mode, SessionNames(ans, mem)).res.out = "raise")
           => UNCHANGED <<ans, history, expr, mem>>]_vars


\* The state a successful press of "=" leaves: the head of the log records
\* ans, expr holds str(ans), and no failure is reported.
Evaluated_Ok ==
    /\ last_error = <<>>
    /\ history # <<>>
    /\ history[1].result = ans
    /\ PyStr(ans).out = "ok"
    /\ expr = PyStr(ans).v

\* A press of "=" in this state succeeds and leaves ans as it is (or the
\* model does not compute the press).
PressAgainKeepsAns ==
    \A r \in {EvaluateResult} : r.modelled => (r.last_error = <<>> /\ r.ans = ans)

\* C5 (round trip of the formatted result): after a successful press of
\* "=", which writes str(result) into expr, a second press succeeds and
\* leaves ans unchanged.
C5_RoundTrip == Evaluated_Ok => PressAgainKeepsAns

\* C5, the part the code keeps: the round trip holds for every finite
\* result.
C5_FiniteRoundTrip == (Evaluated_Ok /\ IsFinite(ans)) => PressAgainKeepsAns


(***************************************************************************)
(* Properties of safe_eval, continued (SpecEval).                          *)
(***************************************************************************)
\* The identifiers bound in the caller's call: pi, e and the keys of the
\* mapping it passes.
BoundNames == {N_pi, N_e} \cup DOMAIN extraNames

\* What the evaluator resolved, and what a lone identifier gave.
ResolvesOnlyBound ==
    Called =>
        /\ \A i \in 1..Len(ret.tr) : ret.tr[i].ev = "name" => ret.tr[i].id \in BoundNames
        /\ (CallTree.out = "ok" /\ CallTree.v.type = "Name") =>
              /\ ret.res.out = "ok" <=> CallTree.v.id \in BoundNames
              /\ CallTree.v.id \in DOMAIN extraNames
                    => ret.res = Ok(extraNames[CallTree.v.id])

\* C6 (names bound for one call only): the identifiers that resolve in a
\* call of safe_eval are exactly pi, e and the keys of the extra names of
\* that call, whatever an earlier call was given, and the call leaves the
\* caller's mapping and the session state unchanged.
C6_NamesOfThisCallOnly ==
    /\ []ResolvesOnlyBound
    /\ [][CallSafeEval => UNCHANGED <<extraNames, expr, ans, mem, history, mode>>]_vars

\* C6, reached: a name the previous call was given, and this call is not,
\* has failed to resolve.
C6_EarlierNameUnbound ==
    /\ Called
    /\ CallTree.out = "ok"
    /\ CallTree.v.type = "Name"
    /\ CallTree.v.id \in DOMAIN lastExtra
    /\ CallTree.v.id \notin DOMAIN extraNames
    /\ ret.res.out = "raise"


\* The functions whose binding depends on the angle mode.
TrigNames == {N_sin, N_cos, N_tan, N_asin, N_acos, N_atan}

\* The expression calls one of them.
CallsTrig ==
    /\ CallTree.out = "ok"
    /\ \E i \in 1..Len(Subtrees(CallTree.v)) :
          /\ Subtrees(CallTree.v)[i].type = "Call"
          /\ Subtrees(CallTree.v)[i].func.type = "Name"
          /\ Subtrees(CallTree.v)[i].func.id \in TrigNames

OtherMode == IF callMode = "deg" THEN "rad" ELSE "deg"

\* C7 (angle mode affects the trig bindings only): for an expression with
\* no call of sin, cos, tan, asin, acos or atan, safe_eval gives in the other
\* mode the outcome, value or failure, it gave in this one.
C7_ModeAffectsTrigOnly ==
    (Called /\ ~CallsTrig)
        => \A other \in {safe_eval(callExpr, OtherMode, extraNames).res} :
              other.out # "unmodelled" => other = ret.res

\* C7, reached: a hyperbolic function gave the same value in both modes,
\* and a trig function did not.
C7_HyperbolicSeen ==
    /\ Called
    /\ ~CallsTrig
    /\ ret.res.out = "ok"
    /\ \E i \in 1..Len(ret.tr) :
          ret.tr[i].ev = "call" /\ ret.tr[i].name \in {N_sinh, N_cosh, N_tanh}
    /\ safe_eval(callExpr, OtherMode, extraNames).res = ret.res
    /\ safe_eval(<<"s", "i", "n", "(", "3", "0", ")">>, "deg", NoNames).res
           # safe_eval(<<"s", "i", "n", "(", "3", "0", ")">>, "rad", NoNames).res


(***************************************************************************)
(* Properties of the session, continued (SpecUI).                          *)
(***************************************************************************)
\* The identifiers in a text.
NamesIn(text) ==
    {Lex(text, 1)[i].v : i \in {j \in 1..Len(Lex(text, 1)) : Lex(text, 1)[j].t = "name"}}

\* A text of numerals, operators and names of the function and constant
\* tables only: the evaluator rejects none of its identifiers.
AllowListed(text) ==
    /\ \A i \in 1..Len(Lex(text, 1)) : Lex(text, 1)[i].t \in {"num", "op", "name"}
    /\ NamesIn(text) \subseteq
           DOMAIN allowed_funcs(mode) \cup DOMAIN MergeNames(allowed_names,
                                                             SessionNames(ans, mem))

\* C8 (allow-list completeness): whenever the grid is on the page, every
\* token one of its buttons appends to the buffer, the texts str(ans) and
\* str(mem) of the Ans and MR buttons included, is allow-listed.
C8_TokensAllowListed ==
    GridRendered
        => \A token \in ButtonTokens \cup {PyStr(ans).v, PyStr(mem).v} : AllowListed(token)

\* C8, the part the code keeps: the fixed tokens of the grid are
\* allow-listed in every state.
C8_FixedTokensAllowListed == \A token \in ButtonTokens : AllowListed(token)


(***************************************************************************)
(* Properties of Calculator.py (SpecCalc): calcRet is what the Calculate   *)
(* handler's call of safe_eval gave.                                       *)
(***************************************************************************)
CalcCalled == calcRet # NoRet

\* C9 (Calculator.safe_eval returns a value or raises ValueError): the call
\* ends in a numeric value or in a ValueError, and no other exception
\* escapes.
C9_ValueOrValueError ==
    CalcCalled
        => \/ calcRet.res.out = "ok" /\ IsNumber(calcRet.res.v)
           \/ calcRet.res.out = "raise" /\ calcRet.res.exc = "ValueError"

\* C9, the part the code keeps: an exception other than ValueError comes
\* from an operator the evaluator applied, and an expression with a name, a
\* call, a non-numeric literal or any other construct does not give a value.
C9_OtherFailuresAreArithmetic ==
    CalcCalled
        => /\ (calcRet.res.out = "raise" /\ calcRet.res.exc # "ValueError")
                 => (calcRet.tr # <<>>
                     /\ calcRet.res.exc \in {"ZeroDivisionError", "OverflowError"})
           /\ \A text \in CalcExprs :
                 (Parse(text).out = "ok" /\ Len(calcHistory) > 0
                      /\ calcHistory[1].expression = text)
                     => \A i \in 1..Len(Subtrees(Parse(text).v)) :
                           Subtrees(Parse(text).v)[i].type
                               \in {"Constant", "BinOp", "UnaryOp"}


(***************************************************************************)
(* Properties of the history log of Scientic_Cal.py (SpecUI).              *)
(***************************************************************************)
\* A press of "=" that reports no failure.
SuccessfulEval == evaluate_expression /\ last_error' = <<>>

\* C10 (history ordering): a successful press of "=" puts one record at the
\* head of the log, holding the evaluated expression, its result and the
\* mode in force, above the records already there; no step other than a
\* successful "=" or Clear history changes the log.
C10_HistoryMostRecentFirst ==
    [][/\ SuccessfulEval
           => history' = <<[expression |-> Strip(expr), result |-> ans',
                            mode |-> mode]>> \o history
       /\ history' # history => (SuccessfulEval \/ do_clear_history)]_vars

\* C10, the part the code keeps: the log changes only by Clear history or
\* by a press of "=" that puts one record at its head.
C10_HeadInsertOrClear ==
    [][history' # history
           => \/ do_clear_history
              \/ /\ evaluate_expression
                 /\ history' = <<[expression |-> Strip(expr), result |-> ans',
                                  mode |-> mode]>> \o history]_vars


(***************************************************************************)
(* Properties of the memory buttons of Scientic_Cal.py (SpecUI).           *)
(***************************************************************************)
\* The call of safe_eval in a memory button fails in a session whose
\* memory register holds m, so that the button takes ans.
AnsIsFallback(m) == safe_eval(expr, mode, SessionNames(ans, m)).res.out = "raise"

\* mem after M+ and then M-, both taking ans, when the model has both.
AddThenSub(added) ==
    IF added.out = "ok" /\ AnsIsFallback(added.v) THEN Operator("sub", <<added.v, ans>>)
    ELSE Unmodelled

\* M+ followed by M- restores mem when ans is the fallback of both.
Restores ==
    (GridRendered /\ AnsIsFallback(mem))
        => \A back \in {AddThenSub(Operator("add", <<mem, ans>>))} :
              back.out # "unmodelled" => back = Ok(mem)

\* The steps of the memory buttons: what they store and what they keep.
MemorySteps ==
    /\ memory_store_add
           => (MemoryOutcome("add").out = "ok" /\ mem' = MemoryOutcome("add").v
               /\ UNCHANGED <<expr, ans, history, mode, last_error>>)
    /\ memory_sub
           => (MemoryOutcome("sub").out = "ok" /\ mem' = MemoryOutcome("sub").v
               /\ UNCHANGED <<expr, ans, history, mode, last_error>>)
    /\ memory_clear
           => (mem' = PyInt(0) /\ UNCHANGED <<expr, ans, history, mode, last_error>>)

\* The value a memory button takes: the expression's under the current
\* mode, ans and mem, or ans when its evaluation fails.
TakesExprOrAns ==
    MemoryOperand
        = IF AnsIsFallback(mem) THEN Ok(ans)
          ELSE safe_eval(expr, mode, SessionNames(ans, mem)).res

\* C11 (memory buttons): M+ and M- add to and subtract from mem the value
\* of the expression, or ans when its evaluation fails, change nothing else
\* and report no error; M+ then M- restores mem when ans is the fallback;
\* MC sets mem to 0.
C11_MemoryButtons ==
    /\ [](GridRendered
              => (MemoryOutcome("add").out # "raise" /\ MemoryOutcome("sub").out # "raise"))
    /\ []TakesExprOrAns
    /\ []Restores
    /\ [][MemorySteps]_vars

\* C11, the part the code keeps: a press that completes stores mem plus or
\* minus the value taken and changes nothing else, and MC stores 0.
C11_CompletedPressChangesMemOnly ==
    /\ []TakesExprOrAns
    /\ [][/\ (memory_store_add /\ MemoryOutcome("add").out = "ok")
                 => (mem' = MemoryOutcome("add").v
                     /\ UNCHANGED <<expr, ans, history, mode, last_error>>)
          /\ (memory_sub /\ MemoryOutcome("sub").out = "ok")
                 => (mem' = MemoryOutcome("sub").v
                     /\ UNCHANGED <<expr, ans, history, mode, last_error>>)
          /\ memory_clear
                 => (mem' = PyInt(0)
                     /\ UNCHANGED <<expr, ans, history, mode, last_error>>)]_vars

\* C11: no press of M+ or M- raises.
C11_NoErrorReported ==
    GridRendered
        => (MemoryOutcome("add").out # "raise" /\ MemoryOutcome("sub").out # "raise")

\* C11: M+ then M- restores mem.
C11_AddThenSubRestores == Restores

=============================================================================
